---- MODULE Spec2Model ----
(***************************************************************************)
(* A model of src/src/async_url_downloads.py: the three response readers   *)
(* (bytes, JSON, CSV rows), the batch dispatcher request_url_responses     *)
(* run by asyncio.run, the sequential runner and main.                     *)
(*                                                                         *)
(* Bytes and code points are integers; a body, a bytearray and a str are   *)
(* sequences of them.  One step of a task is what runs between two         *)
(* suspension points (an await that waits for I/O).                        *)
(***************************************************************************)
EXTENDS Integers, Sequences, FiniteSets, TLC

\* ------------------------------------------------------------------ bounds
\* Longest URL list of the batch and main specifications.
MaxUrls == 3
\* Longest response body of the single-reader specification.
MaxText == 3

\* The size asked of every chunk read (response.content.read(1024)).
ChunkSize == 1024

\* URLs are opaque strings.
Urls == {"u1", "u2"}

\* The code points the model names.
Chr == [tab |-> 9, lf |-> 10, cr |-> 13, space |-> 32, quote |-> 34,
        comma |-> 44, zero |-> 48, one |-> 49, nine |-> 57, semi |-> 59,
        backslash |-> 92, a |-> 97, b |-> 98, c |-> 99, d |-> 100,
        lbrace |-> 123, rbrace |-> 125, bad |-> 255]

\* ---------------------------------------------------------- pure helpers
Min(a, b) == IF a < b THEN a ELSE b

\* The first n elements of s, and what is left after them.
Take(s, n) == SubSeq(s, 1, n)
Drop(s, n) == SubSeq(s, n + 1, Len(s))

RECURSIVE Flatten(_)
Flatten(ss) == IF ss = <<>> THEN <<>> ELSE Head(ss) \o Flatten(Tail(ss))

RECURSIVE SeqsUpTo(_, _)
SeqsUpTo(S, n) ==
    IF n = 0 THEN {<<>>}
    ELSE LET shorter == SeqsUpTo(S, n - 1)
         IN  shorter \cup {Append(s, x) : s \in {t \in shorter : Len(t) = n - 1}, x \in S}

\* response.content.read(n) on a stream with `rest` still to come: at end of
\* stream the empty chunk, and otherwise whatever has arrived, at least one
\* byte and at most n.
read(rest, n) ==
    IF rest = <<>> THEN {<<>>}
    ELSE {Take(rest, k) : k \in 1..Min(n, Len(rest))}

\* bytes.decode('utf-8'), strict: [ok, text], text the code points.
IsCont(b, i) == i <= Len(b) /\ b[i] \in 128..191

utf8_len(b, i) ==
    LET b0 == b[i]
        b1ok(lo, hi) == i + 1 <= Len(b) /\ b[i + 1] \in lo..hi
    IN  IF b0 < 128 THEN 1
        ELSE IF b0 \in 194..223 /\ IsCont(b, i + 1) THEN 2
        ELSE IF /\ \/ b0 = 224 /\ b1ok(160, 191)
                   \/ b0 \in (225..236) \cup (238..239) /\ b1ok(128, 191)
                   \/ b0 = 237 /\ b1ok(128, 159)
                /\ IsCont(b, i + 2) THEN 3
        ELSE IF /\ \/ b0 = 240 /\ b1ok(144, 191)
                   \/ b0 \in 241..243 /\ b1ok(128, 191)
                   \/ b0 = 244 /\ b1ok(128, 143)
                /\ IsCont(b, i + 2)
                /\ IsCont(b, i + 3) THEN 4
        ELSE 0

utf8_point(b, i, n) ==
    CASE n = 1 -> b[i]
      [] n = 2 -> (b[i] - 192) * 64 + (b[i + 1] - 128)
      [] n = 3 -> (b[i] - 224) * 4096 + (b[i + 1] - 128) * 64 + (b[i + 2] - 128)
      [] n = 4 -> (b[i] - 240) * 262144 + (b[i + 1] - 128) * 4096
                      + (b[i + 2] - 128) * 64 + (b[i + 3] - 128)

RECURSIVE utf8_from(_, _)
utf8_from(b, i) ==
    IF i > Len(b) THEN [ok |-> TRUE, text |-> <<>>]
    ELSE LET n == utf8_len(b, i)
         IN  IF n = 0 THEN [ok |-> FALSE, text |-> <<>>]
             ELSE LET rest == utf8_from(b, i + n)
                  IN  IF rest.ok
                      THEN [ok |-> TRUE, text |-> <<utf8_point(b, i, n)>> \o rest.text]
                      ELSE rest

decode_utf8(b) == utf8_from(b, 1)

\* str.splitlines(): the lines without their line boundaries; "\r\n" is one
\* boundary, and a boundary at the very end opens no further line.
LineBreaks == {10, 11, 12, 13, 28, 29, 30, 133, 8232, 8233}

RECURSIVE splitlines_from(_, _, _)
splitlines_from(s, i, cur) ==
    IF i > Len(s) THEN (IF cur = <<>> THEN <<>> ELSE <<cur>>)
    ELSE IF s[i] = 13 /\ i < Len(s) /\ s[i + 1] = 10
         THEN <<cur>> \o splitlines_from(s, i + 2, <<>>)
    ELSE IF s[i] \in LineBreaks
         THEN <<cur>> \o splitlines_from(s, i + 1, <<>>)
    ELSE splitlines_from(s, i + 1, Append(cur, s[i]))

splitlines(s) == splitlines_from(s, 1, <<>>)

\* csv.reader(lines, delimiter=delimiter) with the other settings of the
\* default dialect (quotechar '"', doublequote, no escapechar, no
\* skipinitialspace, not strict), as the parser of the csv module runs it:
\* one character at a time, EOL after the last character of each line.
EOL == 0 - 2

csv_reset == [state |-> "START_RECORD", field |-> <<>>, fields |-> <<>>]

parse_save_field(st, next) ==
    [state |-> next, field |-> <<>>, fields |-> Append(st.fields, st.field)]

parse_add_char(st, c, next) ==
    [st EXCEPT !.state = next, !.field = Append(st.field, c)]

parse_process_char(st, c, delim) ==
    LET newline == c \in {Chr.lf, Chr.cr}
        after == IF c = EOL THEN "START_RECORD" ELSE "EAT_CRNL"
        start_field ==
            IF newline \/ c = EOL THEN parse_save_field(st, after)
            ELSE IF c = Chr.quote THEN [st EXCEPT !.state = "IN_QUOTED_FIELD"]
            ELSE IF c = delim THEN parse_save_field(st, "START_FIELD")
            ELSE parse_add_char(st, c, "IN_FIELD")
    IN  CASE st.state = "START_RECORD" ->
                IF c = EOL THEN st
                ELSE IF newline THEN [st EXCEPT !.state = "EAT_CRNL"]
                ELSE start_field
          [] st.state = "START_FIELD" -> start_field
          [] st.state = "IN_FIELD" ->
                IF newline \/ c = EOL THEN parse_save_field(st, after)
                ELSE IF c = delim THEN parse_save_field(st, "START_FIELD")
                ELSE parse_add_char(st, c, "IN_FIELD")
          [] st.state = "IN_QUOTED_FIELD" ->
                IF c = EOL THEN st
                ELSE IF c = Chr.quote THEN [st EXCEPT !.state = "QUOTE_IN_QUOTED_FIELD"]
                ELSE parse_add_char(st, c, "IN_QUOTED_FIELD")
          [] st.state = "QUOTE_IN_QUOTED_FIELD" ->
                IF c = Chr.quote THEN parse_add_char(st, c, "IN_QUOTED_FIELD")
                ELSE IF c = delim THEN parse_save_field(st, "START_FIELD")
                ELSE IF newline \/ c = EOL THEN parse_save_field(st, after)
                ELSE parse_add_char(st, c, "IN_FIELD")
          [] st.state = "EAT_CRNL" ->
                IF newline THEN st
                ELSE IF c = EOL THEN [st EXCEPT !.state = "START_RECORD"]
                ELSE [st EXCEPT !.state = "ERROR"]
          [] OTHER -> st

RECURSIVE csv_line(_, _, _, _)
csv_line(line, i, st, delim) ==
    IF i > Len(line) THEN parse_process_char(st, EOL, delim)
    ELSE csv_line(line, i + 1, parse_process_char(st, line[i], delim), delim)

\* list(csv.reader(...)): [ok, rows]; ok is FALSE when the parser raised.
RECURSIVE csv_records(_, _, _, _, _)
csv_records(lines, k, st, rows, delim) ==
    IF st.state = "ERROR" THEN [ok |-> FALSE, rows |-> <<>>]
    ELSE IF k > Len(lines)
    THEN [ok |-> TRUE,
          rows |-> IF st.field # <<>> \/ st.state = "IN_QUOTED_FIELD"
                   THEN Append(rows, Append(st.fields, st.field))
                   ELSE rows]
    ELSE LET st2 == csv_line(lines[k], 1, st, delim)
         IN  IF st2.state = "START_RECORD"
             THEN csv_records(lines, k + 1, csv_reset, Append(rows, st2.fields), delim)
             ELSE csv_records(lines, k + 1, st2, rows, delim)

csv_reader(lines, delim) == csv_records(lines, 1, csv_reset, <<>>, delim)

\* json.loads on a text: [ok, val].  The values the model's texts can hold:
\* a non-negative integer, a string without escapes, the empty object.
JsonSpace == {Chr.space, Chr.tab, Chr.lf, Chr.cr}
Digits == Chr.zero..Chr.nine

RECURSIVE strip_left(_, _)
strip_left(s, ws) ==
    IF s # <<>> /\ Head(s) \in ws THEN strip_left(Tail(s), ws) ELSE s

RECURSIVE strip_right(_, _)
strip_right(s, ws) ==
    IF s # <<>> /\ s[Len(s)] \in ws THEN strip_right(Take(s, Len(s) - 1), ws) ELSE s

strip(s, ws) == strip_right(strip_left(s, ws), ws)

RECURSIVE int_of(_)
int_of(ds) ==
    IF ds = <<>> THEN 0
    ELSE 10 * int_of(Take(ds, Len(ds) - 1)) + (ds[Len(ds)] - Chr.zero)

JsonNone == [j |-> "None"]
JsonEmptyDict == [j |-> "dict", size |-> 0]
JsonError == [ok |-> FALSE, val |-> JsonNone]

json_loads(text) ==
    LET t == strip(text, JsonSpace)
        n == Len(t)
        inner == SubSeq(t, 2, n - 1)
    IN  IF n = 0 THEN JsonError
        ELSE IF \A i \in 1..n : t[i] \in Digits
        THEN (IF n > 1 /\ t[1] = Chr.zero THEN JsonError
              ELSE [ok |-> TRUE, val |-> [j |-> "int", n |-> int_of(t)]])
        ELSE IF n >= 2 /\ t[1] = Chr.quote /\ t[n] = Chr.quote
        THEN (IF \A i \in 1..Len(inner) :
                     inner[i] >= 32 /\ inner[i] \notin {Chr.quote, Chr.backslash}
              THEN [ok |-> TRUE, val |-> [j |-> "str", s |-> inner]]
              ELSE JsonError)
        ELSE IF /\ n >= 2 /\ t[1] = Chr.lbrace /\ t[n] = Chr.rbrace
                /\ \A i \in 1..Len(inner) : inner[i] \in JsonSpace
        THEN [ok |-> TRUE, val |-> JsonEmptyDict]
        ELSE JsonError

\* aiohttp's response.json() on a body whose content type is JSON: a body of
\* white space alone is None, any other is decoded as UTF-8 and parsed.
BytesSpace == {Chr.space, Chr.tab, Chr.lf, Chr.cr, 11, 12}

response_json(body) ==
    LET stripped == strip(body, BytesSpace)
        decoded == decode_utf8(stripped)
    IN  IF stripped = <<>> THEN [ok |-> TRUE, val |-> JsonNone]
        ELSE IF ~decoded.ok THEN JsonError
        ELSE json_loads(decoded.text)

VARIABLES
    urls,         \* the input list of URLs
    server,       \* what each URL answers: its status and its body
    request_url,  \* the reader handed to request_url_responses
    delimiter,    \* the delimiter argument of request_url_csv_list
    mpc,          \* where main is
    sidx,         \* sequential_downloads: index of the URL being fetched
    sresp,        \* sequential_downloads: the open response, or NoResponse
    downloads01,  \* sequential_downloads: the list built so far
    sgets,        \* history: number of GETs sequential_downloads issued per index
    sessions,     \* sequential_downloads: the requests.Session objects made so far
    stdout,       \* what main has printed
    uncaught,     \* the exception that ended main, if one did
    bpc,          \* where request_url_responses is
    session,      \* the shared aiohttp.ClientSession
    task,         \* one record per task of the batch
    nfinished,    \* asyncio.gather: number of children that have finished
    outer,        \* asyncio.gather: the future the dispatcher awaits
    results,      \* what request_url_responses returned
    error,        \* the exception that left request_url_responses
    chunks,       \* history: the chunks each task has read, in read order
    gets,         \* history: number of GETs issued for each index
    order         \* history: the indices of the tasks in completion order

vars == <<urls, server, request_url, delimiter, mpc, sidx, sresp, downloads01,
          sgets, sessions, stdout, uncaught, bpc, session, task, nfinished, outer, results, error, chunks, gets,
          order>>

inputs == <<urls, server, request_url, delimiter>>
seqvars == <<sidx, sresp, downloads01, sgets, sessions, stdout, uncaught>>
batchvars == <<bpc, session, task, nfinished, outer, results, error, chunks,
               gets, order>>

\* ------------------------------------------------------------- the inputs
\* A response that is not ok carries a body too (an error page), which no
\* reader looks at: one such body stands for all of them.
ErrorPage == <<Chr.one, Chr.comma>>

Responses(bodies) ==
    {[ok |-> TRUE, body |-> b] : b \in bodies} \cup {[ok |-> FALSE, body |-> ErrorPage]}

\* URL lists of up to n entries, repeated URLs included.  URLs are opaque, so
\* the lists that differ only by renaming the URLs are drawn once.
UrlLists(n) == {us \in SeqsUpTo(Urls, n) : us = <<>> \/ us[1] = "u1"}

Used(us) == {us[i] : i \in 1..Len(us)}

\* What the URLs of us may answer.  A URL answers the same at every request;
\* the URLs that us does not hold all answer the same, as they are never asked.
Servers(us, bodies) ==
    {sv \in [Urls -> Responses(bodies)] :
        \A u \in Urls \ Used(us) : sv[u] = [ok |-> FALSE, body |-> ErrorPage]}

N == Len(urls)
Tasks == 1..N

NoError == [task |-> 0, kind |-> "none"]
NoResponse == [ok |-> FALSE, body |-> <<>>, open |-> FALSE]
\* A task: where it is, the status of its response once it has one ("none"
\* before), its buffer, how much of the body it has read, what it returned,
\* and the kind of the exception it raised ("none" when it did not raise).
NewTask == [pc |-> "created", status |-> "none", b_array |-> <<>>, pos |-> 0,
            result |-> <<>>, exc |-> "none"]

StatusOf(response) == IF response.ok THEN "ok" ELSE "not_ok"

\* Variant: the CSV reader's empty value is the table without rows.
EmptyResult_no_rows(reader) ==
    CASE reader = "content" -> <<>>
      [] reader = "json" -> JsonEmptyDict
      [] reader = "csv" -> <<>>

\* The value each reader returns for a response that is not ok.
EmptyResult(reader) ==
    CASE reader = "content" -> <<>>
      [] reader = "json" -> JsonEmptyDict
      [] reader = "csv" -> << << <<>> >> >>

\* --------------------------------------------------------- asyncio.gather
\* Variants of gather's result list: in completion order, and without the
\* entries of the responses that were not ok.
gather_results_as_completed(t) == [j \in 1..Len(t) |-> t[order'[j]].result]

gather_results_ok_only(t) ==
    LET kept == SelectSeq(t, LAMBDA x : x.status = "ok")
    IN  [j \in 1..Len(kept) |-> kept[j].result]

\* The done callback gather puts on every child counts the child, hands the
\* first exception of a child to the outer future at once, and sets the outer
\* result when the last child has finished: the children's results in the
\* order the children were passed.
gather_results(t) == [j \in 1..Len(t) |-> t[j].result]

\* Variant: the outer result is set as soon as one child has finished.
gather_done_never(t, n, out) == out

gather_done_first_completed(t, n, out) ==
    IF out.state = "pending" /\ n >= 1
    THEN [state |-> "result", val |-> gather_results(t), exc |-> NoError]
    ELSE out

gather_done(t, n, out) ==
    IF out.state = "pending" /\ n = Len(t)
    THEN [state |-> "result", val |-> gather_results(t), exc |-> NoError]
    ELSE out

\* Variant: a child's exception is kept as its result (return_exceptions).
gather_failed_kept(out, exc) ==
    IF out.state = "pending" /\ nfinished' = N
    THEN [state |-> "result", val |-> gather_results(task'), exc |-> NoError]
    ELSE out

gather_failed(out, exc) ==
    IF out.state = "pending"
    THEN [state |-> "exception", val |-> <<>>, exc |-> exc]
    ELSE out

\* Task i returns val; cs is its frame at the return.  The task is done and
\* its done callback is scheduled: gather has not counted the task yet.
Finish(i, val, cs) ==
    /\ chunks' = [chunks EXCEPT ![i] = cs.chunks]
    /\ task' = [task EXCEPT ![i].pc = "done", ![i].result = val,
                            ![i].b_array = IF request_url = "json" THEN <<>> ELSE cs.b_array,
                            ![i].pos = cs.pos, ![i].status = cs.status]
    /\ order' = Append(order, i)
    /\ UNCHANGED <<nfinished, outer>>

\* Task i raises an exception of this kind: its frame is gone, and with it
\* the buffer and what is known of its reads.  Its done callback is
\* scheduled as that of a task that returned is.
Fail(i, kind, cs) ==
    /\ task' = [task EXCEPT ![i] = [NewTask EXCEPT !.pc = "failed", !.status = cs.status,
                                                    !.exc = kind]]
    /\ chunks' = [chunks EXCEPT ![i] = <<>>]
    /\ order' = Append(order, i)
    /\ UNCHANGED <<nfinished, outer>>

\* Where the steps of the tasks and gather's callbacks run: while the
\* dispatcher waits on gather and, after an exception has left it, until
\* asyncio.run cancels what is left.
LoopRuns == bpc \in {"gather", "raised"}

\* The loop runs the done callback of the task that ended first among those
\* gather has not counted: callbacks run in the order they were scheduled.
done_callback ==
    /\ LoopRuns
    /\ nfinished < Len(order)
    /\ nfinished' = nfinished + 1
    /\ UNCHANGED <<inputs, mpc, seqvars, bpc, session, task, results, error,
                   chunks, gets, order>>
    /\ LET i == order[nfinished + 1]
       IN  outer' = IF task[i].pc = "failed"
                    THEN gather_failed(outer, [task |-> i, kind |-> task[i].exc])
                    ELSE gather_done(task, nfinished', outer)

\* ------------------------------------------------- request_url_responses
AllStarted == \A j \in Tasks : task[j].pc # "created"

\* async with aiohttp.ClientSession() as session, the list of tasks and the
\* call of gather, up to the await: nothing suspends in between.
request_url_responses_enter ==
    /\ bpc = "idle"
    /\ mpc \in {"direct", "async"}
    /\ bpc' = "gather"
    /\ session' = "open"
    /\ task' = [i \in Tasks |-> NewTask]
    /\ nfinished' = 0
    /\ outer' = IF N = 0
                THEN [state |-> "result", val |-> <<>>, exc |-> NoError]
                ELSE [state |-> "pending", val |-> <<>>, exc |-> NoError]
    /\ chunks' = [i \in Tasks |-> <<>>]
    /\ gets' = [i \in Tasks |-> 0]
    /\ UNCHANGED <<inputs, mpc, seqvars, results, error, order>>

\* When task i can take its first step: the tasks run their first steps in
\* the order they were made.
start_ready(i) ==
    /\ bpc = "gather"
    /\ task[i].pc = "created"
    /\ \A j \in 1..(i - 1) : task[j].pc # "created"

\* The first step of task i: the reader runs up to session.get(url), which
\* issues the request and suspends.  The loop runs the first steps in the
\* order the tasks were made, before it polls for any I/O.
task_start(i) ==
    /\ start_ready(i)
    /\ task' = [task EXCEPT ![i].pc = "connecting"]
    /\ gets' = [gets EXCEPT ![i] = gets[i] + 1]
    /\ UNCHANGED <<inputs, mpc, seqvars, bpc, session, nfinished, outer,
                   results, error, chunks, order>>

\* Variant: the response of a task is awaited when the tasks before it have
\* completed (for url in urls: results.append(await request_url(session, url))).
get_ready_in_turn(i) ==
    /\ LoopRuns
    /\ AllStarted
    /\ \A j \in 1..(i - 1) : task[j].pc \in {"done", "failed"}
    /\ task[i].pc = "connecting"

\* When the response awaited by task i at session.get(url) can arrive: the
\* request was issued, as all the requests of the batch were.
get_ready(i) ==
    /\ LoopRuns
    /\ AllStarted
    /\ task[i].pc = "connecting"

\* The response of task i arrives: the reader tests response.ok and runs to
\* its next await, or returns its empty value.
task_get(i) ==
    /\ get_ready(i)
    /\ LET response == server[urls[i]]
           cs == [b_array |-> <<>>, pos |-> 0, status |-> StatusOf(response),
                  chunks |-> <<>>]
       IN  IF response.ok
           THEN /\ task' = [task EXCEPT
                       ![i].pc = IF request_url = "json" THEN "decoding" ELSE "reading",
                       ![i].status = "ok", ![i].b_array = <<>>]
                /\ UNCHANGED <<nfinished, outer, order, chunks>>
           ELSE Finish(i, EmptyResult(request_url), cs)
    /\ UNCHANGED <<inputs, mpc, seqvars, bpc, session, results, error, gets>>

\* Variant: the chunk replaces the buffer (b_array = chunk).
extend_replaced(b_array, chunk) == chunk

\* Variant: one buffer serves every task (the first task's).
extend_shared(b_array, chunk) == task[1].b_array \o chunk

\* Variant: the loop ends at the first chunk shorter than was asked for.
loop_ends_short(chunk) == Len(chunk) < ChunkSize

\* b_array.extend(chunk)
extend(b_array, chunk) == b_array \o chunk

\* if not chunk: break
loop_ends(chunk) == chunk = <<>>

\* Variant: the rows are always split at the comma.
after_drain_comma(b_array) ==
    IF request_url = "content" THEN [ok |-> TRUE, val |-> b_array]
    ELSE LET decoded_content == decode_utf8(b_array)
             cr == csv_reader(splitlines(decoded_content.text), Chr.comma)
         IN  IF decoded_content.ok /\ cr.ok
             THEN [ok |-> TRUE, val |-> cr.rows]
             ELSE [ok |-> FALSE, val |-> <<>>]

\* What the reader does once the loop has read an empty chunk.
after_drain(b_array) ==
    IF request_url = "content" THEN [ok |-> TRUE, val |-> b_array]
    ELSE LET decoded_content == decode_utf8(b_array)
             cr == csv_reader(splitlines(decoded_content.text), delimiter)
         IN  IF decoded_content.ok /\ cr.ok
             THEN [ok |-> TRUE, val |-> cr.rows]
             ELSE [ok |-> FALSE, val |-> <<>>]

\* When an await of task i on its body can complete.
read_ready(i) ==
    /\ LoopRuns
    /\ AllStarted
    /\ task[i].pc \in {"reading", "decoding"}

\* One await of task i on its body completes: a chunk of the byte readers'
\* loop, or the whole of response.json().
task_read(i) ==
    /\ read_ready(i)
    /\ LET body == server[urls[i]].body
       IN  IF task[i].pc = "decoding"
           THEN LET response_json_ == response_json(body)
                    cs == [b_array |-> <<>>, pos |-> Len(body), status |-> "ok",
                           chunks |-> <<>>]
                IN  IF response_json_.ok
                    THEN Finish(i, response_json_.val, cs)
                    ELSE Fail(i, "decode", cs)
           ELSE \E chunk \in read(Drop(body, task[i].pos), ChunkSize) :
                  LET b_array == extend(task[i].b_array, chunk)
                      cs == [b_array |-> b_array, pos |-> task[i].pos + Len(chunk),
                             status |-> "ok", chunks |-> Append(chunks[i], chunk)]
                      out == after_drain(b_array)
                  IN  IF ~loop_ends(chunk)
                      THEN /\ task' = [task EXCEPT ![i].b_array = b_array,
                                                   ![i].pos = cs.pos]
                           /\ chunks' = [chunks EXCEPT ![i] = cs.chunks]
                           /\ UNCHANGED <<nfinished, outer, order>>
                      ELSE IF out.ok THEN Finish(i, out.val, cs)
                      ELSE Fail(i, "decode", cs)
    /\ UNCHANGED <<inputs, mpc, seqvars, bpc, session, results, error, gets>>

\* The await task i is suspended at ends with a transport fault (connection
\* refused or lost, timeout), which no reader handles.
task_fault(i) ==
    /\ LoopRuns
    /\ AllStarted
    /\ task[i].pc \in {"connecting", "reading", "decoding"}
    /\ Fail(i, "transport", [status |-> task[i].status])
    /\ UNCHANGED <<inputs, mpc, seqvars, bpc, session, results, error, gets>>

\* gather has its result: the session is closed and the list returned.
request_url_responses_return ==
    /\ bpc = "gather"
    /\ outer.state = "result"
    /\ session' = "closed"
    /\ results' = outer.val
    /\ bpc' = "returned"
    /\ mpc' = IF mpc = "async" THEN "report" ELSE mpc
    /\ stdout' = IF mpc = "async" THEN Append(stdout, "elapsed_asynchronous") ELSE stdout
    /\ UNCHANGED <<inputs, sidx, sresp, downloads01, sgets, sessions, uncaught, task, nfinished, outer, error, chunks,
                   gets, order>>

\* gather has an exception: the session is closed and the exception leaves
\* request_url_responses; no list is returned.  The tasks that are left are
\* not awaited: they go on with the session closed under them, where a step
\* may find its response or chunk as before or end with a fault, until
\* asyncio.run cancels them.
request_url_responses_raise ==
    /\ bpc = "gather"
    /\ outer.state = "exception"
    /\ session' = "closed"
    /\ error' = outer.exc
    /\ bpc' = "raised"
    /\ UNCHANGED <<inputs, mpc, seqvars, task, nfinished, outer, results, chunks,
                   gets, order>>

\* asyncio.run cancels the tasks that are left once its coroutine has ended
\* (_cancel_all_tasks), runs the loop until they and the callbacks still
\* scheduled are through, by which every child of gather is counted, and
\* closes the loop.
Unfinished == {"created", "connecting", "reading", "decoding"}

cancel_all_tasks ==
    /\ bpc = "raised"
    /\ bpc' = "closed"
    /\ task' = [i \in Tasks |->
                  IF task[i].pc \in Unfinished
                  THEN [NewTask EXCEPT !.pc = "cancelled", !.status = task[i].status]
                  ELSE task[i]]
    /\ chunks' = [i \in Tasks |-> IF task[i].pc \in Unfinished THEN <<>> ELSE chunks[i]]
    /\ nfinished' = N
    /\ UNCHANGED <<inputs, mpc, seqvars, session, outer, results, error, gets, order>>

BatchNext ==
    \/ request_url_responses_enter
    \/ \E i \in Tasks : task_start(i)
    \/ \E i \in Tasks : task_get(i)
    \/ \E i \in Tasks : task_read(i)
    \/ \E i \in Tasks : task_fault(i)
    \/ done_callback
    \/ cancel_all_tasks
    \/ request_url_responses_return
    \/ request_url_responses_raise

\* ---------------------------------------------------- the dispatcher's claims
Returned == bpc = "returned"

\* The place of task i in the completion order.
Place(i) == CHOOSE k \in 1..Len(order) : order[k] = i

\* What the reader handed to the batch returns for the response of URL u.
ReaderValue(u) ==
    IF ~server[u].ok THEN EmptyResult(request_url)
    ELSE IF request_url = "json" THEN response_json(server[u].body).val
    ELSE after_drain(server[u].body).val

\* C1: when request_url_responses has returned a list, its entry at index i is
\* the result of the task launched for urls[i], which is what the reader
\* returns for the response of urls[i], whatever order the tasks finished in.
OrderPreserved ==
    Returned =>
        /\ Len(results) = N
        /\ \A i \in Tasks :
              /\ results[i] = task[i].result
              /\ results[i] = ReaderValue(urls[i])

\* C1 witness: a list was returned although a task with a later index
\* finished before a task with an earlier one, their results being different.
OrderPreservedWitness ==
    /\ Returned
    /\ \E i, j \in Tasks :
          i < j /\ Place(j) < Place(i) /\ results[i] # results[j]

\* C2: a returned list is as long as the list of URLs, and every URL whose
\* response was not ok has the reader's empty value at its own position.
LengthInvariant ==
    Returned =>
        /\ Len(results) = Len(urls)
        /\ \A i \in Tasks :
              ~server[urls[i]].ok => results[i] = EmptyResult(request_url)

\* C2 witness: a list was returned for URLs of which one was not ok and
\* another was.
LengthInvariantWitness ==
    /\ Returned
    /\ \E i, j \in Tasks : ~server[urls[i]].ok /\ server[urls[j]].ok

\* The first task that raised.
Failed == {i \in DOMAIN task : task[i].pc = "failed"}
FirstFailed == CHOOSE i \in Failed : \A j \in Failed : Place(i) <= Place(j)

\* C3: once a task has raised, request_url_responses returns no list; when
\* the call has ended for it, the error that left it is the first one raised.
FailFast ==
    /\ Failed # {} => ~Returned /\ results = <<>>
    /\ bpc \in {"raised", "closed"} =>
          /\ Failed # {}
          /\ error.task = FirstFailed
          /\ error.kind \in {"transport", "decode"}

\* C3 witness: the call ended with an error although another task had
\* already returned the body of an ok response.
FailFastWitness ==
    /\ bpc = "raised"
    /\ \E j \in Tasks : task[j].pc = "done" /\ task[j].status = "ok"

\* C8: when the list is returned every task of the batch has finished.
NoEarlyReturn ==
    Returned => nfinished = N /\ \A i \in Tasks : task[i].pc = "done"

\* C8 witness: a list was returned for several tasks, of which the last to
\* finish was not the last launched.
NoEarlyReturnWitness ==
    /\ Returned
    /\ N >= 2
    /\ order[N] # N

\* -------------------------------------------------------- the readers' claims
\* C4: a task whose response is not ok has returned, without a chunk read,
\* the empty value of its reader: an empty bytearray, the empty mapping, or
\* the table of one row that holds one empty field.
EmptyOnFailure ==
    \A i \in DOMAIN task :
        task[i].status = "not_ok" =>
            /\ task[i].pc = "done"
            /\ chunks[i] = <<>>
            /\ task[i].pos = 0
            /\ CASE request_url = "content" -> task[i].result = <<>>
                 [] request_url = "json" -> task[i].result = [j |-> "dict", size |-> 0]
                 [] request_url = "csv" -> task[i].result = << << <<>> >> >>

\* C4 witness: the CSV reader was run on a response that was not ok, and the
\* batch returned its value.
EmptyOnFailureWitness ==
    /\ Returned
    /\ request_url = "csv"
    /\ \E i \in Tasks : task[i].status = "not_ok" /\ results[i] = task[i].result

\* C7: the byte reader's buffer is at every moment the chunks read so far, in
\* read order; it returns after the first empty chunk, and what it returns is
\* the body, however the body was cut into chunks.
BodyDrained ==
    \A i \in DOMAIN task :
        request_url = "content" /\ task[i].status = "ok" /\ task[i].pc \in {"reading", "done"} =>
            LET cs == chunks[i]
                n == Len(cs)
                body == server[urls[i]].body
            IN  /\ task[i].b_array = Flatten(cs)
                /\ task[i].pc = "reading" =>
                      /\ \A k \in 1..n : cs[k] # <<>>
                      /\ task[i].b_array = Take(body, Len(task[i].b_array))
                /\ task[i].pc = "done" =>
                      /\ n >= 1
                      /\ cs[n] = <<>>
                      /\ \A k \in 1..(n - 1) : cs[k] # <<>>
                      /\ task[i].result = Flatten(cs)
                      /\ task[i].result = body

\* C7 witness: the byte reader returned a body of different bytes that it
\* read in several chunks before the empty one.
BodyDrainedWitness ==
    \E i \in DOMAIN task :
        /\ request_url = "content"
        /\ task[i].pc = "done"
        /\ Len(chunks[i]) >= 3
        /\ Len(task[i].result) >= 2
        /\ task[i].result[1] # task[i].result[2]

\* The pieces of s between its separators: one more than it has separators.
RECURSIVE SplitAt(_, _)
SplitAt(s, sep) ==
    IF \A k \in 1..Len(s) : s[k] # sep THEN <<s>>
    ELSE LET k == CHOOSE k \in 1..Len(s) : s[k] = sep /\ \A m \in 1..(k - 1) : s[m] # sep
         IN  <<Take(s, k - 1)>> \o SplitAt(Drop(s, k), sep)

\* The lines of a text whose only line boundary is the line feed: the pieces
\* between the line feeds, the text's end closing the last line.
LinesOf(text) ==
    LET pieces == SplitAt(text, Chr.lf)
    IN  IF pieces[Len(pieces)] = <<>> THEN Take(pieces, Len(pieces) - 1) ELSE pieces

\* A body the row-table claim is about: ASCII text without a quote.
PlainText(body) == \A k \in 1..Len(body) : body[k] < 128 /\ body[k] # Chr.quote

CsvDone(i) == request_url = "csv" /\ task[i].status = "ok" /\ task[i].pc = "done"

\* The three examples: "a,b\nc,d", and "a;b" with the delimiter ';' and ','.
CsvExamples(i) ==
    LET body == server[urls[i]].body
        ab == <<Chr.a, Chr.semi, Chr.b>>
    IN  /\ body = <<Chr.a, Chr.comma, Chr.b, Chr.lf, Chr.c, Chr.comma, Chr.d>>
              /\ delimiter = Chr.comma
           => task[i].result = << << <<Chr.a>>, <<Chr.b>> >>, << <<Chr.c>>, <<Chr.d>> >> >>
        /\ body = ab /\ delimiter = Chr.semi
           => task[i].result = << << <<Chr.a>>, <<Chr.b>> >> >>
        /\ body = ab /\ delimiter = Chr.comma
           => task[i].result = << <<ab>> >>

\* C10 as claimed: the CSV reader returns one row per line of a plain text
\* body, every row the pieces of its line between the delimiters.
RowTableAsClaimed ==
    \A i \in DOMAIN task :
        CsvDone(i) /\ PlainText(server[urls[i]].body) =>
            LET lines == LinesOf(server[urls[i]].body)
            IN  /\ task[i].result = [k \in 1..Len(lines) |-> SplitAt(lines[k], delimiter)]
                /\ CsvExamples(i)

\* C10 amended: the CSV reader returns one row per line of a plain text body;
\* the row of an empty line has no field, and the row of any other line is
\* the pieces of the line between the delimiters.  No plain text makes the
\* reader raise a decode error.
RowTableParsing ==
    \A i \in DOMAIN task :
        LET body == server[urls[i]].body
            lines == LinesOf(body)
        IN  /\ CsvDone(i) /\ PlainText(body) =>
                /\ task[i].result =
                       [k \in 1..Len(lines) |->
                           IF lines[k] = <<>> THEN <<>> ELSE SplitAt(lines[k], delimiter)]
                /\ CsvExamples(i)
            /\ request_url = "csv" /\ PlainText(body) /\ server[urls[i]].ok =>
                   outer.exc.kind # "decode"

\* C10 witness: the CSV reader returned the rows of a plain text body with an
\* empty line and a line of several fields.
RowTableParsingWitness ==
    \E i \in DOMAIN task :
        /\ CsvDone(i)
        /\ PlainText(server[urls[i]].body)
        /\ \E k, m \in 1..Len(task[i].result) :
              task[i].result[k] = <<>> /\ Len(task[i].result[m]) >= 2

\* ------------------------------------------------- the tasks among themselves
\* The tasks whose record, chunk history or request count a step changes.
Touched ==
    {j \in DOMAIN task :
        \/ task'[j].pc # task[j].pc
        \/ task'[j].status # task[j].status
        \/ task'[j].b_array # task[j].b_array
        \/ task'[j].pos # task[j].pos
        \/ chunks'[j] # chunks[j]
        \/ gets'[j] # gets[j]}

OwnBody(i) == server[urls[i]].body

IsolatedState ==
    \A i \in DOMAIN task :
        /\ request_url # "json" /\ task[i].status = "ok" /\ task[i].pc \in {"reading", "done"} =>
              /\ task[i].b_array = Flatten(chunks[i])
              /\ task[i].pos = Len(task[i].b_array)
              /\ task[i].pos <= Len(OwnBody(i))
              /\ task[i].b_array = Take(OwnBody(i), task[i].pos)
        /\ task[i].pc = "done" => task[i].result = ReaderValue(urls[i])

IsolatedStep ==
    LoopRuns /\ bpc' = bpc => Cardinality(Touched) <= 1

\* C11: however the tasks of a batch alternate their steps, the buffer of a
\* task holds chunks of that task's own response only, a step of one task
\* changes nothing of another task, and what a task returns is what its
\* reader returns for its response when run alone.
TaskIsolation == []IsolatedState /\ [][IsolatedStep]_vars

\* C11 witness: two tasks are in the middle of reading different bodies, each
\* with a chunk in its buffer.
TaskIsolationWitness ==
    \E i, j \in DOMAIN task :
        /\ task[i].pc = "reading" /\ task[j].pc = "reading"
        /\ task[i].b_array # <<>> /\ task[j].b_array # <<>>
        /\ task[i].b_array # task[j].b_array
        /\ i < j

\* The tasks of the batch that have neither returned, raised nor been cancelled.
Pending == {i \in DOMAIN task : task[i].pc \in Unfinished}

\* C12: the session is closed only after every task of the batch has
\* finished: in no state is the session closed while a task is still pending
\* or in the middle of reading, the runs where a task raised included.
SessionOutlivesTasks == session = "closed" => Pending = {}

\* ---------------------------------------------------------- main's endings
\* C13: in a run of main over a list that is not empty, whatever requests
\* return a status that is not a success, no error but a transport fault
\* leaves main uncaught, and a run that ends has printed both elapsed times,
\* both first items and the verdict.
NonSuccessEndsNormally ==
    N >= 1 =>
        /\ uncaught \in {"none", "transport"}
        /\ mpc = "done" =>
              /\ Len(stdout) = 5
              /\ SubSeq(stdout, 1, 4) = <<"elapsed_sequential", "elapsed_asynchronous",
                                          "first_sequential", "first_asynchronous">>
              /\ stdout[5] \in {"identical", "not_identical"}

\* ------------------------------------------------------ the sequential runner
OpenSessions == {k \in DOMAIN sessions : sessions[k].open}

OneOpenAtMost ==
    /\ Cardinality(OpenSessions) <= 1
    /\ sresp.open => OpenSessions = {sidx} /\ Len(sessions) = sidx
    /\ ~sresp.open => OpenSessions = {}
    /\ \A k \in DOMAIN sessions : sessions[k].index = k /\ sessions[k].gets = 1
    /\ \A i \in DOMAIN sgets : sgets[i] >= 1 => i <= sidx /\ i <= Len(sessions)

IssuedAfterHandled ==
    \A i \in DOMAIN sgets :
        sgets'[i] > sgets[i] =>
            /\ ~sresp.open
            /\ OpenSessions = {}
            /\ sidx = i
            /\ Len(sessions) = i - 1

\* C14: sequential_downloads has one session and one request open at most;
\* the request of an index is issued when the responses of all earlier
\* indices have been handled and their sessions closed, and every index has
\* a session of its own, with which one GET is issued.
OneAtATime == []OneOpenAtMost /\ [][IssuedAfterHandled]_vars

\* C14 witness: the request of the second URL is open in its own session, the
\* session of the first URL is closed.
OneAtATimeWitness ==
    /\ mpc = "seq" /\ sresp.open /\ sidx = 2
    /\ Len(sessions) = 2 /\ ~sessions[1].open /\ sessions[2].open

\* ------------------------------------------------------ all tasks in flight
Awaiting(i) == task[i].pc \in {"connecting", "reading", "decoding"}

\* C17: request_url_responses has made the tasks of all URLs when it waits,
\* and every GET has been issued before the first response is handled; from
\* then on every task that waits for its response or for a chunk can take
\* its next step, whatever the other tasks have done, so that the tasks can
\* complete in any order.
AllInFlight ==
    /\ bpc # "idle" => DOMAIN task = 1..N /\ DOMAIN gets = 1..N
    /\ (\E i \in DOMAIN task : task[i].pc \notin {"created", "connecting"}) =>
           \A j \in 1..N : gets[j] = 1
    /\ bpc = "gather" /\ ~AllStarted => \E i \in Tasks : start_ready(i)
    /\ bpc = "gather" /\ AllStarted =>
           \A i \in Tasks : Awaiting(i) => get_ready(i) \/ read_ready(i)

\* C17 witness: a batch of three tasks or more has returned, its tasks having
\* completed in the reverse of the order of urls, each after reading a body.
AllInFlightWitness ==
    /\ Returned /\ N >= 3 /\ Len(order) = N
    /\ \A k \in 1..N : order[k] = N + 1 - k /\ task[k].status = "ok" /\ Len(chunks[k]) >= 2

\* ------------------------------------------------------------ initial states
Readers == {"content", "json", "csv"}
Delimiters == {Chr.comma, Chr.semi}

\* The bodies of the batch and main specifications: the empty body, a body of
\* one chunk and a body of two different bytes, which can come in two chunks.
BatchBodies == {<<>>, <<Chr.one>>, <<Chr.comma, Chr.one>>}

\* The bytes of the single-reader specification's bodies, and the bodies of
\* the examples of the row-table reader: "a,b\nc,d" and "a;b".
ReaderBytes == {Chr.a, Chr.comma, Chr.semi, Chr.lf, Chr.quote, Chr.one, Chr.bad}
ExampleBodies == {<<Chr.a, Chr.comma, Chr.b, Chr.lf, Chr.c, Chr.comma, Chr.d>>,
                  <<Chr.a, Chr.semi, Chr.b>>}

InitRest ==
    /\ sidx = 1
    /\ sresp = NoResponse
    /\ downloads01 = <<>>
    /\ sgets = [i \in Tasks |-> 0]
    /\ sessions = <<>>
    /\ stdout = <<>>
    /\ uncaught = "none"
    /\ bpc = "idle"
    /\ session = "none"
    /\ task = <<>>
    /\ nfinished = 0
    /\ outer = [state |-> "pending", val |-> <<>>, exc |-> NoError]
    /\ results = <<>>
    /\ error = NoError
    /\ chunks = <<>>
    /\ gets = <<>>
    /\ order = <<>>

\* asyncio.run(request_url_responses(urls, request_url)) for any reader.
InitBatch ==
    /\ urls \in UrlLists(MaxUrls)
    /\ server \in Servers(urls, BatchBodies)
    /\ request_url \in Readers
    /\ delimiter = Chr.comma
    /\ mpc = "direct"
    /\ InitRest

SpecBatch == InitBatch /\ [][BatchNext]_vars

\* asyncio.run(request_url_responses([url], request_url)), and for the CSV
\* reader also with delimiter=';': one reader on one response.
InitReader ==
    /\ urls = <<"u1">>
    /\ server \in Servers(urls, SeqsUpTo(ReaderBytes, MaxText) \cup ExampleBodies)
    /\ request_url \in Readers
    /\ delimiter \in (IF request_url = "csv" THEN Delimiters ELSE {Chr.comma})
    /\ mpc = "direct"
    /\ InitRest

SpecReader == InitReader /\ [][BatchNext]_vars

\* ----------------------------------------------------- sequential_downloads
\* with requests.Session() as s: with s.get(url) as response: the blocking
\* call returns once the whole body is there.
\* Variant: one session, made for the first URL, serves every URL.
session_get_reused(ss, i) ==
    IF ss = <<>>
    THEN <<[index |-> i, open |-> TRUE, gets |-> 1]>>
    ELSE [ss EXCEPT ![1].open = TRUE, ![1].gets = @ + 1]

\* with requests.Session() as s: with s.get(url) as response: a new session
\* is made for the URL at index i and one GET is issued with it.
session_get(ss, i) == Append(ss, [index |-> i, open |-> TRUE, gets |-> 1])

\* The exit of the with block closes the session made last.
session_exit(ss) == [ss EXCEPT ![Len(ss)].open = FALSE]

sequential_get ==
    /\ mpc = "seq"
    /\ sidx <= N
    /\ ~sresp.open
    /\ sresp' = [ok |-> server[urls[sidx]].ok, body |-> server[urls[sidx]].body,
                 open |-> TRUE]
    /\ sgets' = [sgets EXCEPT ![sidx] = sgets[sidx] + 1]
    /\ sessions' = session_get(sessions, sidx)
    /\ UNCHANGED <<inputs, mpc, sidx, downloads01, stdout, uncaught, batchvars>>

\* s.get(url) ends with a transport fault: it leaves both with blocks,
\* sequential_downloads and main.
sequential_fault ==
    /\ mpc = "seq"
    /\ sidx <= N
    /\ ~sresp.open
    /\ mpc' = "crashed"
    /\ uncaught' = "transport"
    /\ sgets' = [sgets EXCEPT ![sidx] = sgets[sidx] + 1]
    /\ sessions' = session_exit(session_get(sessions, sidx))
    /\ UNCHANGED <<inputs, sidx, sresp, downloads01, stdout, batchvars>>

\* Variants: the content is appended whatever the status, and an empty
\* bytearray is appended for a response that is not ok.
append_always(downloads, response) == Append(downloads, response.body)

append_or_empty(downloads, response) ==
    Append(downloads, IF response.ok THEN response.body ELSE <<>>)

\* if response.ok: downloads.append(bytearray(response.content))
append_if_ok(downloads, response) ==
    IF response.ok THEN Append(downloads, response.body) ELSE downloads

\* Variant: a response that is not ok is requested a second time.
sequential_handle_retry ==
    /\ mpc = "seq"
    /\ sresp.open
    /\ downloads01' = append_if_ok(downloads01, sresp)
    /\ sresp' = NoResponse
    /\ sidx' = IF sresp.ok \/ sgets[sidx] >= 2 THEN sidx + 1 ELSE sidx
    /\ sessions' = session_exit(sessions)
    /\ UNCHANGED <<inputs, mpc, sgets, stdout, uncaught, batchvars>>

\* The body of the with blocks, and their exits, which close the response
\* and the session.
sequential_handle ==
    /\ mpc = "seq"
    /\ sresp.open
    /\ downloads01' = append_if_ok(downloads01, sresp)
    /\ sresp' = NoResponse
    /\ sidx' = sidx + 1
    /\ sessions' = session_exit(sessions)
    /\ UNCHANGED <<inputs, mpc, sgets, stdout, uncaught, batchvars>>

\* return downloads, and main's first print.
sequential_return ==
    /\ mpc = "seq"
    /\ sidx > N
    /\ mpc' = "async"
    /\ stdout' = Append(stdout, "elapsed_sequential")
    /\ UNCHANGED <<inputs, sidx, sresp, downloads01, sgets, sessions, uncaught, batchvars>>

\* ---------------------------------------------------------------------- main
\* The prints after both runs: the first item of each list, which raises
\* IndexError on an empty list, and the verdict of downloads01 == downloads02.
main_report ==
    /\ mpc = "report"
    /\ IF downloads01 = <<>>
       THEN /\ mpc' = "crashed"
            /\ uncaught' = "IndexError"
            /\ UNCHANGED stdout
       ELSE IF results = <<>>
       THEN /\ mpc' = "crashed"
            /\ uncaught' = "IndexError"
            /\ stdout' = Append(stdout, "first_sequential")
       ELSE /\ mpc' = "done"
            /\ stdout' = stdout \o <<"first_sequential", "first_asynchronous",
                                     IF downloads01 = results THEN "identical"
                                     ELSE "not_identical">>
            /\ UNCHANGED uncaught
    /\ UNCHANGED <<inputs, sidx, sresp, downloads01, sgets, sessions, batchvars>>

\* asyncio.run has ended with the exception of its coroutine: the exception
\* leaves asynchronous_downloads and main, which catch nothing.
asynchronous_downloads_raise ==
    /\ mpc = "async"
    /\ bpc = "closed"
    /\ mpc' = "crashed"
    /\ uncaught' = error.kind
    /\ UNCHANGED <<inputs, sidx, sresp, downloads01, sgets, sessions, stdout, batchvars>>

Next ==
    \/ sequential_get
    \/ sequential_fault
    \/ sequential_handle
    \/ sequential_return
    \/ BatchNext
    \/ asynchronous_downloads_raise
    \/ main_report

\* main() for any list of URLs: main's own list is one URL fifty times.
Init ==
    /\ urls \in UrlLists(MaxUrls)
    /\ server \in Servers(urls, BatchBodies)
    /\ request_url = "content"
    /\ delimiter = Chr.comma
    /\ mpc = "seq"
    /\ InitRest

Spec == Init /\ [][Next]_vars

\* ------------------------------------------------- the two runners' claims
\* sequential_downloads has returned (main's first print follows at once).
SeqReturned == Len(stdout) >= 1

AllOk == \A i \in Tasks : server[urls[i]].ok
NotOk == {i \in Tasks : ~server[urls[i]].ok}

\* The entries of list xs at the indices whose URL answered ok.
RECURSIVE OkOnly(_, _)
OkOnly(xs, k) ==
    IF k > Len(xs) THEN <<>>
    ELSE (IF server[urls[k]].ok THEN <<xs[k]>> ELSE <<>>) \o OkOnly(xs, k + 1)

Bodies == [i \in Tasks |-> server[urls[i]].body]

\* C5: the list sequential_downloads returns holds the bodies of the URLs that
\* answered ok, in input order, and nothing for the others: its length is
\* len(urls) less the number of URLs that did not answer ok.
SequentialLength ==
    SeqReturned =>
        /\ Len(downloads01) = N - Cardinality(NotOk)
        /\ downloads01 = OkOnly(Bodies, 1)

\* C5 witness: sequential_downloads returned a list that is not empty and is
\* shorter than the list of URLs.
SequentialLengthWitness ==
    /\ SeqReturned
    /\ downloads01 # <<>>
    /\ Len(downloads01) < N

\* C6: when every URL answers ok, the list of sequential_downloads and the
\* list of asynchronous_downloads are equal.
Equivalence ==
    Returned /\ AllOk => downloads01 = results

\* C6 witness: both lists were returned for URLs that all answered ok, with
\* different bodies, a later task finishing before an earlier one and a body
\* read in two chunks.
EquivalenceWitness ==
    /\ Returned
    /\ AllOk
    /\ \E i, j \in Tasks : i < j /\ Place(j) < Place(i) /\ results[i] # results[j]
    /\ \E i \in Tasks : Len(chunks[i]) >= 3

\* C9: the sequential list is the concurrent list without the positions of
\* the URLs that did not answer ok, so the two are equal exactly when every
\* URL answered ok.
Asymmetry ==
    Returned =>
        /\ Len(results) = N
        /\ downloads01 = OkOnly(results, 1)
        /\ (downloads01 = results) <=> AllOk

\* C9 witness: both lists were returned, one URL not having answered ok and
\* another having answered ok with a body that is not empty.
AsymmetryWitness ==
    /\ Returned
    /\ ~AllOk
    /\ \E i \in Tasks : server[urls[i]].ok /\ results[i] # <<>>

\* C15: a GET is issued once at most for an index of urls, by either runner;
\* when sequential_downloads has returned, and when request_url_responses
\* has returned, exactly one GET has been issued for every index, two
\* indices with the same URL and indices whose response is not ok included.
ExactlyOneGet ==
    /\ \A i \in DOMAIN sgets : sgets[i] <= 1
    /\ \A i \in DOMAIN gets : gets[i] <= 1
    /\ SeqReturned => DOMAIN sgets = 1..N /\ \A i \in 1..N : sgets[i] = 1
    /\ Returned => DOMAIN gets = 1..N /\ \A i \in 1..N : gets[i] = 1

\* C15 witness: both runners have returned for a list that has one URL twice,
\* whose response is not ok.
ExactlyOneGetWitness ==
    /\ SeqReturned /\ Returned
    /\ N >= 2 /\ urls[1] = urls[2] /\ ~server[urls[1]].ok
    /\ sgets[1] = 1 /\ sgets[2] = 1 /\ gets[1] = 1 /\ gets[2] = 1

\* ------------------------------------------------------------- a fair batch
\* asyncio.run(request_url_responses(urls, request_url_response_content))
\* when no await ends with a transport fault.
InitLive == InitBatch /\ request_url = "content"

LiveNext ==
    \/ request_url_responses_enter
    \/ \E i \in Tasks : task_start(i)
    \/ \E i \in Tasks : task_get(i)
    \/ \E i \in Tasks : task_read(i)
    \/ done_callback
    \/ request_url_responses_return

\* One step of task i, when there is such a task.
task_step(i) ==
    /\ i \in DOMAIN task
    /\ task_start(i) \/ task_get(i) \/ task_read(i)

\* The event loop runs its ready callbacks first in, first out: a task that
\* can take a step, the done callback of a task that has ended, and the
\* dispatcher once gather's future is set, are not passed over for ever.  That each awaited response and chunk does arrive is
\* the claim's premise.
Fairness ==
    /\ WF_vars(request_url_responses_enter)
    /\ \A i \in 1..MaxUrls : WF_vars(task_step(i))
    /\ WF_vars(done_callback)
    /\ WF_vars(request_url_responses_return)

SpecLive == InitLive /\ [][LiveNext]_vars /\ Fairness

\* C16: when no transport fault occurs and every body ends after finitely
\* many chunks, under fair scheduling every task of the batch completes and
\* request_url_responses returns its list of results.
BatchTerminates ==
    <>(/\ Returned
       /\ Len(results) = N
       /\ \A i \in DOMAIN task : task[i].pc = "done")

\* C16 witness: a batch of two tasks or more has returned, one of its tasks
\* having read its body in two chunks before the end of the stream and
\* another having had a response that is not ok.
BatchTerminatesWitness ==
    /\ Returned /\ N >= 2
    /\ \E i, j \in DOMAIN task :
          /\ task[i].pc = "done" /\ Len(chunks[i]) = 3
          /\ task[j].pc = "done" /\ task[j].status = "not_ok"

====
